---------------------------- MODULE Spec2Model ----------------------------
(***************************************************************************)
(* Walk-forward VaR backtest, parametric VaR, Kupiec LRuc test and the     *)
(* price-cache loader of the volatility / covariance diagnostics           *)
(* repository.                                                             *)
(*                                                                         *)
(* Numbers are fixed point.  A log return is an integer number of return   *)
(* units; a volatility is held in 1/100 of a return unit; a quantile in    *)
(* 1/10000; a VaR threshold in 1/1000000 of a return unit; a natural       *)
(* logarithm, a likelihood ratio and a probability in 1/1000000.           *)
(***************************************************************************)
EXTENDS Integers, Sequences, FiniteSets

VARIABLES
    pc,           \* position of scripts/walkforward_var.py main()
    index,        \* returns.index: the dates of the return frame, in order
    ret,          \* returns["SPY_Log_Return"], one value per row of index
    garch_raises, \* whether arch's optimiser raises on this sample
    garch,        \* garch: date -> conditional volatility
    rv252,        \* rv252 after dropna(): date -> realized volatility
    rv_index,     \* rv252.index
    var_results,  \* var_results: column -> date -> flag
    writes,       \* number of assignments made to var_results[column][date]
    it,           \* number of iterations of the walk-forward loop completed
    results,      \* the coverage table: column -> record
    exc,          \* the exception main() ended with, "none" otherwise
    vin,          \* inputs of a ParametricVaR evaluation
    vout,         \* outputs of a ParametricVaR evaluation
    lin,          \* inputs of an LRuc evaluation
    lout,         \* outputs of an LRuc evaluation
    csv,          \* the price cache file
    run,          \* the last load_or_update_spy_prices call and its outcome
    rin,          \* inputs of a compute_returns call: prices, price_col
    rout          \* the frame compute_returns leaves, and its exception

wfVars == <<pc, index, ret, garch_raises, garch, rv252, rv_index,
            var_results, writes, it, results, exc>>
varVars == <<vin, vout>>
lrVars == <<lin, lout>>
ldVars == <<csv, run>>
crVars == <<rin, rout>>
vars == <<wfVars, varVars, lrVars, ldVars, crVars>>

----------------------------------------------------------------------------
(* Bounds of the model *)

\* longest return frame
MaxLen == 5
\* latest calendar day a trading date may fall on
MaxDay == 6
\* rolling window of the realized volatility (252 in the script)
Window == 2
\* largest volatility handed to a ParametricVaR evaluation, in return units
MaxSigma == 3
\* largest number of trials handed to an LRuc evaluation
MaxT == 8
\* latest date of a price row, and most rows in one provider response
MaxDate == 3
\* most rows of a price frame handed to compute_returns
MaxRows == 2
\* most columns requested in one compute_returns call
MaxReq == 3

\* log returns a frame may hold, in return units
RetValues == {-3, -2, 0, 1}

\* fixed-point units
SigmaScale == 10 * 10
PpfScale == 100 * 100
Micro == 1000 * 1000

----------------------------------------------------------------------------
(* Arithmetic helpers *)

RECURSIVE SumSeq(_)
SumSeq(s) == IF s = <<>> THEN 0 ELSE Head(s) + SumSeq(Tail(s))

RECURSIVE IsqrtBetween(_, _, _)
IsqrtBetween(v, lo, hi) ==
    IF lo >= hi THEN lo
    ELSE LET mid == (lo + hi + 1) \div 2
         IN  IF mid * mid <= v THEN IsqrtBetween(v, mid, hi)
             ELSE IsqrtBetween(v, lo, mid - 1)

\* np.sqrt on a non-negative fixed-point value (rounded down)
Sqrt(v) == IsqrtBetween(v, 0, v)

RECURSIVE Gcd(_, _)
Gcd(a, b) == IF b = 0 THEN a ELSE Gcd(b, a % b)

----------------------------------------------------------------------------
(* ParametricVaR: src/spy_volatility/models/var.py *)

\* the levels the quantile tables hold, in percent
AlphaPcts == {1, 5, 50, 95, 99}

\* scipy.stats.norm.ppf(alpha), in 1/10000
NormPpf(alpha) ==
    CASE alpha = 1 -> -23263
      [] alpha = 5 -> -16449
      [] alpha = 50 -> 0
      [] alpha = 95 -> 16449
      [] alpha = 99 -> 23263

\* degrees of freedom the script passes to student_t_var
Nu == 8

\* scipy.stats.t.ppf(alpha, nu), in 1/10000 (tabulated for nu = 8)
TPpf(alpha, nu) ==
    CASE nu = 8 /\ alpha = 1 -> -28965
      [] nu = 8 /\ alpha = 5 -> -18595
      [] nu = 8 /\ alpha = 50 -> 0
      [] nu = 8 /\ alpha = 95 -> 18595
      [] nu = 8 /\ alpha = 99 -> 28965

\* a sign slip: mu + sigma * norm.ppf(alpha)
gaussian_var_plus(mu, sigma, alpha) == mu * PpfScale + sigma * NormPpf(alpha)

\* gaussian_var: mu - sigma * norm.ppf(alpha); mu, sigma in 1/100, result in 1/1000000
gaussian_var(mu, sigma, alpha) == mu * PpfScale - sigma * NormPpf(alpha)

\* student_t_var: mu - sigma * t.ppf(alpha, nu)
student_t_var(mu, sigma, nu, alpha) == mu * PpfScale - sigma * TPpf(alpha, nu)

----------------------------------------------------------------------------
(* VolatilityEstimator *)

\* returns[ticker + "_Squared_Return"]
SquaredReturn(h) == [k \in 1..Len(h) |-> h[k] * h[k]]

\* rolling(window).mean() at row k: undefined (NaN) for the first window-1 rows
RollingDefined(h, window, k) == k >= window /\ k <= Len(h)

\* sum of the squared returns of rows k-window+1 .. k
RollingSum(h, window, k) == SumSeq(SubSeq(SquaredReturn(h), k - window + 1, k))

\* compute_realized_volatility at row k:
\* sqrt(annualization * rolling(window).mean()), in 1/100
compute_realized_volatility(h, window, annualization, k) ==
    Sqrt((annualization * RollingSum(h, window, k) * SigmaScale * SigmaScale)
           \div window)

\* The estimate of arch's constant-mean GARCH(1,1) fit.  The optimiser is
\* not part of the repository; what the model keeps of it is that the
\* parameters are estimated once, on the whole sample handed to fit():
\* the mean and the unconditional variance are the sample's, in 1/10 and
\* 1/100 of a return unit, and the ARCH and GARCH weights are 1/10 and 8/10.
GarchFit(h) ==
    LET n == Len(h)
        mu == (10 * SumSeq(h)) \div n
        e2 == [k \in 1..n |-> (10 * h[k] - mu) * (10 * h[k] - mu)]
    IN  [mu |-> mu, e2 |-> e2, s2 |-> SumSeq(e2) \div n]

\* results.conditional_volatility squared at row k, in 1/100:
\* omega + alpha * resid[k-1]^2 + beta * sigma2[k-1], backcast at the first row
RECURSIVE CondVariance(_, _)
CondVariance(fit, k) ==
    IF k <= 1 THEN fit.s2
    ELSE (fit.s2 + fit.e2[k - 1] + 8 * CondVariance(fit, k - 1)) \div 10

\* fit_garch_11 at row k: sqrt(annualization) * conditional_volatility / 100
\* of the model fitted to 100 * returns, in 1/100
fit_garch_11(h, annualization, k) ==
    Sqrt(annualization) * Sqrt(CondVariance(GarchFit(h), k) * SigmaScale)

----------------------------------------------------------------------------
(* CoverageTest: LRuc, src/spy_volatility/models/var.py *)

\* A probability is a ratio of two small integers, 10^-e ("tiny") or
\* 1 - 10^-e ("near1"): the last two stand for values at the clip bounds.
Rat(n, d) == [k |-> "rat", n |-> n, d |-> d, e |-> 0]
Tiny(e) == [k |-> "tiny", n |-> 0, d |-> 1, e |-> e]
Near1(e) == [k |-> "near1", n |-> 0, d |-> 1, e |-> e]

\* eps = 1e-12, as the exponent of 10^-12
EpsExp == 12

\* A float is finite, an infinity or NaN
Fin(v) == [k |-> "fin", v |-> v]
NegInf == [k |-> "-inf", v |-> 0]
PosInf == [k |-> "+inf", v |-> 0]
NaN == [k |-> "nan", v |-> 0]

\* integer * float
XMul(c, a) ==
    CASE a.k = "fin" -> Fin(c * a.v)
      [] a.k = "nan" -> NaN
      [] OTHER -> IF c = 0 THEN NaN
                  ELSE IF (c > 0) = (a.k = "+inf") THEN PosInf ELSE NegInf

\* float + float
XAdd(a, b) ==
    CASE a.k = "nan" \/ b.k = "nan" -> NaN
      [] a.k = "fin" /\ b.k = "fin" -> Fin(a.v + b.v)
      [] a.k = "fin" -> b
      [] b.k = "fin" -> a
      [] OTHER -> IF a.k = b.k THEN a ELSE NaN

\* float - float
XSub(a, b) == XAdd(a, XMul(-1, b))

\* np.log of a natural number, in 1/1000000
LnInt(m) ==
    CASE m = 50 -> 3912023
      [] m = 95 -> 4553877
      [] m = 99 -> 4595120
      [] m = 100 -> 4605170
      [] m \in 1..20 ->
           <<0, 693147, 1098612, 1386294, 1609438, 1791759, 1945910,
             2079442, 2197225, 2302585, 2397895, 2484907, 2564949, 2639057,
             2708050, 2772589, 2833213, 2890372, 2944439, 2995732>>[m]

RECURSIVE Pow10(_)
Pow10(k) == IF k <= 0 THEN 1 ELSE 10 * Pow10(k - 1)

\* np.log of a probability: log(0) is -inf; log(1 - 10^-e) is -10^-e
Log(v) ==
    CASE v.k = "tiny" -> Fin(-(v.e * LnInt(10)))
      [] v.k = "near1" -> Fin(IF v.e >= 7 THEN 0 ELSE -Pow10(6 - v.e))
      [] v.n = 0 -> NegInf
      [] OTHER -> LET g == Gcd(v.n, v.d)
                  IN  Fin(LnInt(v.n \div g) - LnInt(v.d \div g))

\* 1 - v
OneMinus(v) ==
    CASE v.k = "tiny" -> Near1(v.e)
      [] v.k = "near1" -> Tiny(v.e)
      [] OTHER -> Rat(v.d - v.n, v.d)

\* a clip that leaves the value as it is
ClipNone(v, e) == v

\* np.clip(v, 10^-e, 1 - 10^-e)
Clip(v, e) ==
    CASE v.k = "tiny" -> IF v.e >= e THEN Tiny(e) ELSE v
      [] v.k = "near1" -> IF v.e >= e THEN Near1(e) ELSE v
      [] v.n <= 0 -> Tiny(e)
      [] v.n >= v.d -> Near1(e)
      [] OTHER -> v

\* scipy.stats.chi2.cdf(LR, df=1) = erf(sqrt(LR / 2)), in 1/1000000,
\* tabulated at the left end of each step
Chi2Cdf(lr) ==
    CASE lr.k = "nan" -> NaN
      [] lr.k = "-inf" -> Fin(0)
      [] lr.k = "+inf" -> Fin(Micro)
      [] OTHER ->
           LET v == lr.v
           IN  Fin(CASE v <= 0 -> 0
                     [] v > 0 /\ v < 1000 -> 798
                     [] v >= 1000 /\ v < 15800 -> 25227
                     [] v >= 15800 /\ v < 100000 -> 100029
                     [] v >= 100000 /\ v < 454900 -> 248170
                     [] v >= 454900 /\ v < 1000000 -> 499983
                     [] v >= 1000000 /\ v < 2705500 -> 682689
                     [] v >= 2705500 /\ v < 3841500 -> 899997
                     [] v >= 3841500 /\ v < 6634900 -> 950001
                     [] v >= 6634900 /\ v < 10828000 -> 990000
                     [] v >= 10828000 /\ v < 20000000 -> 999000
                     [] v >= 20000000 /\ v < 40000000 -> 999992
                     [] v >= 40000000 /\ v < 70000000 -> 999999
                     [] OTHER -> Micro)

\* LRuc(alpha, x, T): the LR statistic and its p-value, or the exception of x / T
LRuc(alpha, x, T) ==
    IF T = 0 THEN [exc |-> "ZeroDivisionError", LR |-> NaN, p_value |-> NaN]
    ELSE
    LET a == Clip(alpha, EpsExp)
        p_hat == Clip(Rat(x, T), EpsExp)
        null == XAdd(XMul(T - x, Log(OneMinus(a))), XMul(x, Log(a)))
        alt == XAdd(XMul(T - x, Log(OneMinus(p_hat))), XMul(x, Log(p_hat)))
        LR == XMul(-2, XSub(null, alt))
    IN  [exc |-> "none", LR |-> LR, p_value |-> XSub(Fin(Micro), Chi2Cdf(LR))]

----------------------------------------------------------------------------
(* WalkForwardBacktester: scripts/walkforward_var.py main() *)

Cols == {"exceed_rv_gauss_001", "exceed_rv_gauss_005",
         "exceed_rv_t_001", "exceed_rv_t_005",
         "exceed_garch_gauss_001", "exceed_garch_gauss_005",
         "exceed_garch_t_001", "exceed_garch_t_005"}

RvCols == {"exceed_rv_gauss_001", "exceed_rv_gauss_005",
           "exceed_rv_t_001", "exceed_rv_t_005"}

\* col.endswith("001")
EndsWith001(col) == col \in {"exceed_rv_gauss_001", "exceed_rv_t_001",
                             "exceed_garch_gauss_001", "exceed_garch_t_001"}

\* col.split("_")[2] == "gauss"
IsGauss(col) == col \in {"exceed_rv_gauss_001", "exceed_rv_gauss_005",
                         "exceed_garch_gauss_001", "exceed_garch_gauss_005"}

\* the two levels exchanged: 0.95 for *_001, 0.99 for *_005
LoopAlphaSwapped(col) == IF EndsWith001(col) THEN 95 ELSE 99

\* the alpha the loop passes for a column: 0.99 for *_001, 0.95 for *_005
LoopAlpha(col) == IF EndsWith001(col) THEN 99 ELSE 95

\* the VaR threshold the loop compares the next return with
Threshold(col, sigma) ==
    IF IsGauss(col) THEN gaussian_var(0, sigma, LoopAlpha(col))
    ELSE student_t_var(0, sigma, Nu, LoopAlpha(col))

\* a comparison that also counts a return equal to the threshold
ExceedsOrEqual(r, threshold) == IF r * Micro <= threshold THEN 1 ELSE 0

\* int(future_return < threshold)
Exceeds(r, threshold) == IF r * Micro < threshold THEN 1 ELSE 0

\* returns.index.get_loc(date): the row of a date (rows counted from 1)
GetLoc(idx, date) == CHOOSE k \in 1..Len(idx) : idx[k] = date

\* the row of the date itself
SameRow(idx, date) == GetLoc(idx, date)

\* date_idx = returns.index.get_loc(date) + 1
DateIdx(idx, date) == GetLoc(idx, date) + 1

\* rv252.index[:-1]
LoopDates == IF rv_index = <<>> THEN <<>> ELSE SubSeq(rv_index, 1, Len(rv_index) - 1)

\* strictly increasing sequences of trading dates, n of them
DateSeqs(n) ==
    {s \in [1..n -> 1..MaxDay] : \A k \in 1..(n - 1) : s[k] < s[k + 1]}

DateSet(idx) == {idx[k] : k \in 1..Len(idx)}

WfIdle ==
    /\ pc = "idle" /\ index = <<>> /\ ret = <<>> /\ garch_raises = FALSE
    /\ garch = <<>> /\ rv252 = <<>> /\ rv_index = <<>> /\ var_results = <<>>
    /\ writes = <<>> /\ it = 0 /\ results = <<>> /\ exc = "none"

\* the return frame main() starts from: returns after dropna()
WfInit ==
    /\ pc = "start"
    /\ \E n \in 1..MaxLen :
         /\ index \in DateSeqs(n)
         /\ ret \in [1..n -> RetValues]
    /\ garch_raises \in BOOLEAN
    /\ garch = <<>> /\ rv252 = <<>> /\ rv_index = <<>> /\ var_results = <<>>
    /\ writes = <<>> /\ it = 0 /\ results = <<>> /\ exc = "none"

\* lines 19-40: fit the GARCH model, compute the realized volatility, create
\* the eight exceedance columns filled with 0
Estimate ==
    /\ pc = "start"
    /\ IF garch_raises
       THEN /\ pc' = "error"
            /\ exc' = "GarchFitError"
            /\ UNCHANGED <<garch, rv252, rv_index, var_results, writes>>
       ELSE /\ garch' = [d \in DateSet(index) |->
                           fit_garch_11(ret, 1, GetLoc(index, d))]
            /\ rv_index' = SelectSeq(index,
                  LAMBDA d : RollingDefined(ret, Window, GetLoc(index, d)))
            /\ rv252' = [d \in {e \in DateSet(index) :
                                  RollingDefined(ret, Window, GetLoc(index, e))} |->
                           compute_realized_volatility(ret, Window, 1, GetLoc(index, d))]
            /\ var_results' = [c \in Cols |-> [d \in DateSet(index) |-> 0]]
            /\ writes' = [c \in Cols |-> [d \in DateSet(index) |-> 0]]
            /\ pc' = "loop"
            /\ exc' = "none"
    /\ UNCHANGED <<index, ret, garch_raises, it, results>>
    /\ UNCHANGED <<varVars, lrVars, ldVars, crVars>>

\* lines 44-80: one iteration of the walk-forward loop
WalkForwardStep ==
    /\ pc = "loop"
    /\ it < Len(LoopDates)
    /\ LET date == LoopDates[it + 1]
           date_idx == DateIdx(index, date)
       IN  IF date_idx > Len(index)
           THEN /\ pc' = "error"
                /\ exc' = "IndexError"
                /\ UNCHANGED <<var_results, writes, it>>
           ELSE LET future_date == index[date_idx]
                    future_return == ret[date_idx]
                    rv_sigma == rv252[date]
                    garch_sigma == garch[date]
                    sigma(c) == IF c \in RvCols THEN rv_sigma ELSE garch_sigma
                IN  /\ var_results' =
                          [c \in Cols |->
                             [var_results[c] EXCEPT ![future_date] =
                                 Exceeds(future_return, Threshold(c, sigma(c)))]]
                    /\ writes' =
                          [c \in Cols |->
                             [writes[c] EXCEPT ![future_date] = @ + 1]]
                    /\ it' = it + 1
                    /\ UNCHANGED <<pc, exc>>
    /\ UNCHANGED <<index, ret, garch_raises, garch, rv252, rv_index, results>>
    /\ UNCHANGED <<varVars, lrVars, ldVars, crVars>>

\* var_results[col].sum()
RECURSIVE ColSum(_, _)
ColSum(f, ds) ==
    IF ds = {} THEN 0
    ELSE LET d == CHOOSE e \in ds : TRUE IN f[d] + ColSum(f, ds \ {d})

\* lines 85-113: T = len(var_results), and for each column the exceedance
\* rate, the count and the Kupiec test at 0.01 or 0.05
Summarize ==
    /\ pc = "loop"
    /\ it = Len(LoopDates)
    /\ LET T == Len(index)
           row(col) ==
               LET x == ColSum(var_results[col], DOMAIN var_results[col])
                   alpha == IF EndsWith001(col) THEN Rat(1, 100) ELSE Rat(5, 100)
                   test == LRuc(alpha, x, T)
               IN  [alpha |-> alpha, x |-> x, T |-> T,
                    exceedance_rate |-> Rat(x, Cardinality(DOMAIN var_results[col])),
                    LR |-> test.LR, p_value |-> test.p_value, exc |-> test.exc]
       IN  IF T = 0
           THEN /\ pc' = "error"
                /\ exc' = "ZeroDivisionError"
                /\ UNCHANGED results
           ELSE /\ results' = [c \in Cols |-> row(c)]
                /\ pc' = "done"
                /\ UNCHANGED exc
    /\ UNCHANGED <<index, ret, garch_raises, garch, rv252, rv_index,
                   var_results, writes, it>>
    /\ UNCHANGED <<varVars, lrVars, ldVars, crVars>>

----------------------------------------------------------------------------
(* Evaluations of the pure functions *)

VarIdle == vin = [mu |-> 0, sigma |-> 0, pc |-> "idle"] /\ vout = <<>>

\* mu and sigma in 1/100 of a return unit
VarInit ==
    /\ vin \in [mu : {-50, 0, 50},
                sigma : {10 * k : k \in 0..(10 * MaxSigma)},
                pc : {"start"}]
    /\ vout = <<>>

\* gaussian_var and student_t_var at every tabulated level
EvalVaR ==
    /\ vin.pc = "start"
    /\ vout' = [a \in AlphaPcts |->
                  [gauss |-> gaussian_var(vin.mu, vin.sigma, a),
                   t |-> student_t_var(vin.mu, vin.sigma, Nu, a)]]
    /\ vin' = [vin EXCEPT !.pc = "done"]
    /\ UNCHANGED <<wfVars, lrVars, ldVars, crVars>>

\* the levels handed to LRuc: two beyond the clip bounds, five inside
LrAlphas == {Tiny(EpsExp + 1), Rat(1, 100), Rat(5, 100), Rat(50, 100),
             Rat(95, 100), Rat(99, 100), Near1(EpsExp + 1)}

LrIdle == lin = [alpha |-> Rat(1, 100), x |-> 0, T |-> 1, pc |-> "idle"] /\ lout = <<>>

\* T > 0, 0 <= x <= T, 0 < alpha < 1
LrInit ==
    /\ lin \in {i \in [alpha : LrAlphas, x : 0..MaxT, T : 1..MaxT, pc : {"start"}] :
                  i.x <= i.T}
    /\ lout = <<>>

EvalLRuc ==
    /\ lin.pc = "start"
    /\ lout' = LRuc(lin.alpha, lin.x, lin.T)
    /\ lin' = [lin EXCEPT !.pc = "done"]
    /\ UNCHANGED <<wfVars, varVars, ldVars, crVars>>

----------------------------------------------------------------------------
(* Price cache: src/spy_volatility/data/loaders.py *)

\* closing prices a row may hold
Prices == {10, 11}

\* frames with one row per date, dates strictly increasing
Frames ==
    UNION {{f \in [1..n -> [date : 1..MaxDate, val : Prices]] :
              \A k \in 1..(n - 1) : f[k].date < f[k + 1].date} : n \in 0..MaxDate}

\* what yf.download does: a transport failure, or a frame (possibly empty)
Responses == {[error |-> TRUE, rows |-> <<>>]} \cup
             {[error |-> FALSE, rows |-> f] : f \in Frames}

NoRun == [kind |-> "none", resp |-> [error |-> FALSE, rows |-> <<>>],
          old |-> <<>>, raised |-> "none", returned |-> <<>>]

LdIdle == csv = [exists |-> FALSE, rows |-> <<>>] /\ run = NoRun

\* the cache file is absent, or holds a frame
LdInit ==
    /\ csv \in {[exists |-> FALSE, rows |-> <<>>]} \cup
               {[exists |-> TRUE, rows |-> f] : f \in Frames \ {<<>>}}
    /\ run = NoRun

\* insert a row into a frame sorted by date, after the rows of the same date
RECURSIVE InsertSorted(_, _)
InsertSorted(f, r) ==
    IF f = <<>> THEN <<r>>
    ELSE IF Head(f).date <= r.date THEN <<Head(f)>> \o InsertSorted(Tail(f), r)
         ELSE <<r>> \o f

\* df.sort_index(): a stable sort by date
RECURSIVE SortIndex(_)
SortIndex(f) ==
    IF f = <<>> THEN <<>>
    ELSE InsertSorted(SortIndex(SubSeq(f, 1, Len(f) - 1)), f[Len(f)])

\* spy[~spy.index.duplicated(keep="last")]
DropDuplicatesKeepLast(f) ==
    SelectSeq([k \in 1..Len(f) |-> [row |-> f[k], k |-> k]],
              LAMBDA e : \A j \in (e.k + 1)..Len(f) : f[j].date # e.row.date)

Rows(s) == [k \in 1..Len(s) |-> s[k].row]

\* _download_spy_prices: line 54 binds the provider's frame to spy; line 56
\* reads df, a local that is first bound at line 58
download_spy_prices(resp) ==
    IF resp.error THEN [raised |-> "TransportError", df |-> <<>>]
    ELSE [raised |-> "UnboundLocalError", df |-> <<>>]

\* load_or_update_spy_prices, one call
LoadOrUpdate(resp) ==
    IF ~csv.exists
    THEN LET spy == download_spy_prices(resp)
         IN  IF spy.raised # "none"
             THEN /\ run' = [kind |-> "download", resp |-> resp, old |-> <<>>,
                             raised |-> spy.raised, returned |-> <<>>]
                  /\ UNCHANGED csv
             ELSE /\ csv' = [exists |-> TRUE, rows |-> spy.df]
                  /\ run' = [kind |-> "download", resp |-> resp, old |-> <<>>,
                             raised |-> "none", returned |-> spy.df]
    ELSE LET spy_old == SortIndex(csv.rows)
             spy_new == download_spy_prices(resp)
             spy == SortIndex(Rows(DropDuplicatesKeepLast(spy_old \o spy_new.df)))
         IN  IF spy_new.raised # "none"
             THEN /\ run' = [kind |-> "update", resp |-> resp, old |-> csv.rows,
                             raised |-> spy_new.raised, returned |-> <<>>]
                  /\ UNCHANGED csv
             ELSE IF spy_new.df = <<>>
             THEN /\ run' = [kind |-> "update", resp |-> resp, old |-> csv.rows,
                             raised |-> "none", returned |-> spy_old]
                  /\ UNCHANGED csv
             ELSE /\ csv' = [exists |-> TRUE, rows |-> spy]
                  /\ run' = [kind |-> "update", resp |-> resp, old |-> csv.rows,
                             raised |-> "none", returned |-> spy]

LoadOrUpdateRun ==
    /\ \E resp \in Responses : LoadOrUpdate(resp)
    /\ UNCHANGED <<wfVars, varVars, lrVars, crVars>>

----------------------------------------------------------------------------
(* ReturnSeries builder: src/spy_volatility/data/features.py *)

\* price columns of the frame handed to compute_returns
PriceCols == {"SPY_Adj_Close", "SPY_Volume", "QQQ_Close"}

\* columns a caller may request: those of the frame and one it does not hold
ReqCols == PriceCols \cup {"IWM_Close"}

\* values of a price column
PriceVals == {1, 2, 3}

\* c.split("_")[0]
Ticker(c) ==
    CASE c \in {"SPY_Adj_Close", "SPY_Volume"} -> "SPY"
      [] c = "QQQ_Close" -> "QQQ"
      [] c = "IWM_Close" -> "IWM"

\* ticker + "_Log_Return"
LogReturnCol(ticker) ==
    CASE ticker = "SPY" -> "SPY_Log_Return"
      [] ticker = "QQQ" -> "QQQ_Log_Return"
      [] ticker = "IWM" -> "IWM_Log_Return"

\* ticker + "_Squared_Return"
SquaredReturnCol(ticker) ==
    CASE ticker = "SPY" -> "SPY_Squared_Return"
      [] ticker = "QQQ" -> "QQQ_Squared_Return"
      [] ticker = "IWM" -> "IWM_Squared_Return"

\* np.log(prices[c]), in 1/1000
LogPrices(col) == [k \in 1..Len(col) |-> LnInt(col[k]) \div 1000]

\* Series.diff(): NaN on the first row
Diff(x) == [k \in 1..Len(x) |-> IF k = 1 THEN NaN ELSE Fin(x[k] - x[k - 1])]

\* series ** 2, in 1/1000000
Squared(x) == [k \in 1..Len(x) |-> IF x[k].k = "fin" THEN Fin(x[k].v * x[k].v) ELSE x[k]]

\* prices[name] = series: a new column, or an existing one replaced
SetColumn(frame, name, series) ==
    [c \in DOMAIN frame \cup {name} |-> IF c = name THEN series ELSE frame[c]]

\* the body of the loop of compute_returns for one requested column
ReturnsOf(frame, c) ==
    LET ticker == Ticker(c)
        log_adj_close == LogPrices(frame[c])
    IN  SetColumn(SetColumn(frame, LogReturnCol(ticker), Diff(log_adj_close)),
                  SquaredReturnCol(ticker), Squared(Diff(log_adj_close)))

\* compute_returns(prices, price_col): the loop over price_col on the frame
\* it extends in place; prices[c] raises KeyError for a column it does not
\* hold.  sort_index(axis=1) orders the columns and leaves their contents.
RECURSIVE compute_returns(_, _)
compute_returns(prices, price_col) ==
    IF price_col = <<>> THEN [exc |-> "none", frame |-> prices]
    ELSE LET c == Head(price_col)
         IN  IF c \notin DOMAIN prices THEN [exc |-> "KeyError", frame |-> prices]
             ELSE compute_returns(ReturnsOf(prices, c), Tail(price_col))

\* lists of distinct requested columns
Requests ==
    UNION {{q \in [1..n -> ReqCols] : \A i, j \in 1..n : q[i] = q[j] => i = j} :
             n \in 1..MaxReq}

CrIdle ==
    /\ rin = [prices |-> <<>>, price_col |-> <<>>, pc |-> "idle"]
    /\ rout = [exc |-> "none", frame |-> <<>>]

CrInit ==
    /\ \E n \in 2..MaxRows :
          rin \in [prices : [PriceCols -> [1..n -> PriceVals]],
                   price_col : Requests, pc : {"start"}]
    /\ rout = [exc |-> "none", frame |-> <<>>]

ComputeReturns ==
    /\ rin.pc = "start"
    /\ rout' = compute_returns(rin.prices, rin.price_col)
    /\ rin' = [rin EXCEPT !.pc = "done"]
    /\ UNCHANGED <<wfVars, varVars, lrVars, ldVars>>

----------------------------------------------------------------------------
(* Specifications *)

Init == WfInit /\ VarIdle /\ LrIdle /\ LdIdle /\ CrIdle
Next == Estimate \/ WalkForwardStep \/ Summarize
Spec == Init /\ [][Next]_vars

InitVaR == WfIdle /\ VarInit /\ LrIdle /\ LdIdle /\ CrIdle
NextVaR == EvalVaR
SpecVaR == InitVaR /\ [][NextVaR]_vars

InitLRuc == WfIdle /\ VarIdle /\ LrInit /\ LdIdle /\ CrIdle
NextLRuc == EvalLRuc
SpecLRuc == InitLRuc /\ [][NextLRuc]_vars

InitLoader == WfIdle /\ VarIdle /\ LrIdle /\ LdInit /\ CrIdle
NextLoader == LoadOrUpdateRun
SpecLoader == InitLoader /\ [][NextLoader]_vars

InitReturns == WfIdle /\ VarIdle /\ LrIdle /\ LdIdle /\ CrInit
NextReturns == ComputeReturns
SpecReturns == InitReturns /\ [][NextReturns]_vars

----------------------------------------------------------------------------
(* Claims *)

Started == pc \in {"loop", "done"}

\* the row of the k-th date the loop has gone through
LoopRow(k) == CHOOSE p \in 1..Len(index) : index[p] = LoopDates[k]

\* the volatility estimate of a date that a column's threshold is built on
SigmaAt(c, date) == IF c \in RvCols THEN rv252[date] ELSE garch[date]

\* C1: for every date t the loop has gone through, the flag is written at the
\* date of the row right after t's row in the return index, that row exists,
\* and for each of the 8 columns the flag is 1 exactly when the return of
\* that row is strictly below the VaR threshold built with mu = 0 and the
\* volatility estimate of date t.
C1_FlagAtSuccessor ==
    /\ exc # "IndexError"
    /\ Started =>
         \A k \in 1..it :
            LET p == LoopRow(k)
            IN  /\ p + 1 <= Len(index)
                /\ \A c \in Cols :
                     /\ writes[c][index[p + 1]] >= 1
                     /\ (var_results[c][index[p + 1]] = 1) <=>
                          (ret[p + 1] * Micro < Threshold(c, SigmaAt(c, index[p])))

\* a finished run of two iterations: across a calendar gap a return equal to
\* its threshold (both 0) is left unflagged, and a later return below its
\* threshold is flagged
C1_Witness ==
    /\ pc = "done"
    /\ it >= 2
    /\ \E k \in 1..it :
          LET p == LoopRow(k)
          IN  /\ index[p + 1] > index[p] + 1
              /\ rv252[index[p]] = 0
              /\ ret[p + 1] = 0
              /\ var_results["exceed_rv_gauss_001"][index[p + 1]] = 0
    /\ \E k \in 1..it :
          var_results["exceed_garch_t_005"][index[LoopRow(k) + 1]] = 1

\* the estimate a column would use at row p were the return history h
SigmaOf(c, h, p) ==
    IF c \in RvCols THEN compute_realized_volatility(h, Window, 1, p)
    ELSE fit_garch_11(h, 1, p)

\* C2: for every column, the threshold used to flag the date of row p + 1 is
\* the same for every return history that agrees with this one on rows 1..p.
C2_NoLookAhead ==
    Started =>
      \A k \in 1..it :
         LET p == LoopRow(k)
         IN  \A h \in [1..Len(ret) -> RetValues] :
                (\A j \in 1..p : h[j] = ret[j]) =>
                   \A c \in Cols :
                      Threshold(c, SigmaOf(c, h, p)) =
                        Threshold(c, SigmaAt(c, index[p]))

\* the dates of a column that received an exceedance decision
Decided(c) == {d \in DateSet(index) : writes[c][d] >= 1}

\* C3: for every column, the trial count T handed to the Kupiec test and the
\* denominator of the exceedance rate are the number of dates that received
\* a decision in the loop.
C3_TrialsAreDecisions ==
    pc = "done" =>
      \A c \in Cols :
         /\ results[c].T = Cardinality(Decided(c))
         /\ results[c].exceedance_rate.d = Cardinality(Decided(c))

\* C4: when the loop has finished, each column has been assigned exactly once
\* at every date after the first date with a defined volatility estimate, and
\* no date has been assigned twice.
C4_AssignedOnce ==
    (pc = "done" \/ (pc = "loop" /\ it = Len(LoopDates))) =>
      \A c \in Cols :
         \A p \in 1..Len(index) :
            /\ writes[c][index[p]] <= 1
            /\ (rv_index # <<>> /\ index[p] > rv_index[1]) =>
                  writes[c][index[p]] = 1

\* a finished run whose backtest range holds at least two dates
C4_Witness ==
    /\ pc = "done"
    /\ it >= 2
    /\ \A c \in Cols : writes[c][index[Len(index)]] = 1

FiniteAndInRange ==
    /\ lout.exc = "none"
    /\ lout.LR.k = "fin" /\ lout.LR.v >= 0
    /\ lout.p_value.k = "fin" /\ lout.p_value.v >= 0 /\ lout.p_value.v <= Micro

\* C6 as stated: LR is finite and >= 0 and the p-value is in [0, 1]; for
\* x = 0 and for x = T, LR > 0 and the p-value is < 1.
C6_AsStated ==
    lin.pc = "done" =>
      /\ FiniteAndInRange
      /\ (lin.x = 0 \/ lin.x = lin.T) =>
            (lout.LR.v > 0 /\ lout.p_value.v < Micro)

\* alpha is clipped onto the bound the empirical rate x / T is clipped onto
ClippedOntoRate ==
    \/ lin.x = 0 /\ Clip(lin.alpha, EpsExp) = Tiny(EpsExp)
    \/ lin.x = lin.T /\ Clip(lin.alpha, EpsExp) = Near1(EpsExp)

\* C6 as amended: LR is finite and >= 0 and the p-value is in [0, 1]; for
\* x = 0 and for x = T, LR > 0 and the p-value is < 1 unless alpha is clipped
\* onto the same bound as the rate (x = 0 with alpha <= 1e-12, x = T with
\* alpha >= 1 - 1e-12), where LR = 0 and the p-value is 1.
C6_FiniteResult ==
    lin.pc = "done" =>
      /\ FiniteAndInRange
      /\ ((lin.x = 0 \/ lin.x = lin.T) /\ ~ClippedOntoRate) =>
            (lout.LR.v > 0 /\ lout.p_value.v < Micro)
      /\ ClippedOntoRate => (lout.LR.v = 0 /\ lout.p_value.v = Micro)

\* both degenerate cases evaluated: the largest T without an exceedance at 5%
C6_Witness ==
    /\ lin.pc = "done"
    /\ lin.x = 0 /\ lin.T = MaxT /\ lin.alpha = Rat(5, 100)
    /\ lout.LR.k = "fin" /\ lout.LR.v > 0 /\ lout.p_value.v < Micro

Ended == pc \in {"done", "error"}

\* C7: when the realized-volatility series is empty after dropna(), main()
\* ends with InsufficientDataError and produces no coverage results.
C7_InsufficientData ==
    (Ended /\ ~garch_raises /\ rv_index = <<>>) =>
      (pc = "error" /\ exc = "InsufficientDataError")

\* C8: when the GARCH fit raises, the exceedance columns and the coverage
\* results of the four realized-volatility columns are still produced.
C8_RvSurvivesGarchFailure ==
    (Ended /\ garch_raises) =>
      (RvCols \subseteq DOMAIN var_results /\ RvCols \subseteq DOMAIN results)

\* C9: an update of an existing cache on which the provider returns an empty
\* frame raises nothing, returns the cached rows and leaves the file as it was.
C9_EmptyIsNoNewData ==
    (run.kind = "update" /\ ~run.resp.error /\ run.resp.rows = <<>>) =>
      /\ run.raised = "none"
      /\ run.returned = run.old
      /\ csv.rows = run.old

HasRow(f, r) == \E k \in 1..Len(f) : f[k] = r
HasDate(f, d) == \E k \in 1..Len(f) : f[k].date = d

\* C10: after a run in which the provider answered, the cache file exists,
\* holds one row per date in strictly increasing order, keeps every date it
\* held before, and holds every fetched row with the fetched value.
C10_MergedCache ==
    (run.kind # "none" /\ ~run.resp.error) =>
      /\ csv.exists
      /\ \A k \in 1..(Len(csv.rows) - 1) : csv.rows[k].date < csv.rows[k + 1].date
      /\ \A k \in 1..Len(run.old) : HasDate(csv.rows, run.old[k].date)
      /\ \A k \in 1..Len(run.resp.rows) : HasRow(csv.rows, run.resp.rows[k])

\* pairs <<a, b>> of columns of one estimator and distribution: a at 1%, b at 5%
LevelPairs == {<<"exceed_rv_gauss_001", "exceed_rv_gauss_005">>,
               <<"exceed_rv_t_001", "exceed_rv_t_005">>,
               <<"exceed_garch_gauss_001", "exceed_garch_gauss_005">>,
               <<"exceed_garch_t_001", "exceed_garch_t_005">>}

\* pairs <<a, b>> of columns of one estimator and level: a Student-t, b Gaussian
DistPairs == {<<"exceed_rv_t_001", "exceed_rv_gauss_001">>,
              <<"exceed_rv_t_005", "exceed_rv_gauss_005">>,
              <<"exceed_garch_t_001", "exceed_garch_gauss_001">>,
              <<"exceed_garch_t_005", "exceed_garch_gauss_005">>}

\* C11: in the result table the flags are nested on every date: a flag of 1
\* in a 1% column implies a flag of 1 in the 5% column of the same estimator
\* and distribution, a flag of 1 in a Student-t column implies a flag of 1 in
\* the Gaussian column of the same estimator and level, and so the
\* exceedance counts satisfy x(001) <= x(005) and x(t) <= x(gauss).
C11_NestedFlags ==
    /\ Started =>
         \A pr \in LevelPairs \cup DistPairs :
            \A d \in DateSet(index) :
               var_results[pr[1]][d] = 1 => var_results[pr[2]][d] = 1
    /\ pc = "done" =>
         \A pr \in LevelPairs \cup DistPairs : results[pr[1]].x <= results[pr[2]].x

\* a finished run in which both nestings are strict: a date flagged at 5% and
\* not at 1%, a date flagged by a Gaussian column and not by the Student-t
\* column of the same estimator and level, and counts that differ
C11_Witness ==
    /\ pc = "done"
    /\ \E d \in DateSet(index) :
          /\ var_results["exceed_rv_gauss_005"][d] = 1
          /\ var_results["exceed_rv_gauss_001"][d] = 0
    /\ \E d \in DateSet(index) :
          /\ var_results["exceed_garch_gauss_001"][d] = 1
          /\ var_results["exceed_garch_t_001"][d] = 0
    /\ results["exceed_rv_gauss_001"].x < results["exceed_rv_gauss_005"].x
    /\ results["exceed_garch_t_001"].x < results["exceed_garch_gauss_001"].x

\* the log-difference of a price column, computed from the frame handed in
LogDiffOf(c) == Diff(LogPrices(rin.prices[c]))

\* orderings of the requested columns
Reorderings(q) ==
    {r \in [1..Len(q) -> {q[i] : i \in 1..Len(q)}] :
       \A i, j \in 1..Len(q) : r[i] = r[j] => i = j}

\* C12: after compute_returns, every requested column c has its return
\* columns: the log return is the log-difference of c and the squared return
\* is its square; and the log-return column of a ticker is the same for every
\* order of the requested columns.
C12_EachColumnKept ==
    (rin.pc = "done" /\ rout.exc = "none") =>
      /\ \A i \in 1..Len(rin.price_col) :
            LET c == rin.price_col[i]
            IN  /\ rout.frame[LogReturnCol(Ticker(c))] = LogDiffOf(c)
                /\ rout.frame[SquaredReturnCol(Ticker(c))] = Squared(LogDiffOf(c))
      /\ \A r \in Reorderings(rin.price_col) :
            \A i \in 1..Len(rin.price_col) :
               LET col == LogReturnCol(Ticker(rin.price_col[i]))
               IN  compute_returns(rin.prices, r).frame[col] = rout.frame[col]

----------------------------------------------------------------------------
====
